---- MODULE Spec2Model ----
(***************************************************************************)
(* Batch job orchestration of the Gemini image generator:                  *)
(*   lib/jobManager.ts   the job store (JobManager)                        *)
(*   lib/cleanup.ts      the periodic cleanup task                         *)
(*   lib/gemini.ts       the provider client singleton                     *)
(*   app/api/generate    POST, processJobs, processJob                     *)
(*   app/api/status      GET                                               *)
(* The host is a single-threaded event loop: a handler or a continuation   *)
(* runs to its next await without interleaving (variable run holds the     *)
(* frame that is executing), promise reactions are served first-in         *)
(* first-out from the microtask queue, and a new macrotask (a request, a   *)
(* timer, a provider response) starts only when both are empty.            *)
(***************************************************************************)
EXTENDS Integers, Sequences, FiniteSets, TLC

\* ------------------------------------------------------------- bounds
\* Largest imageCount (in whole images) a modelled request asks for.
MaxCount == 3
\* Number of batches whose dispatch is modelled.
MaxBatches == 1
\* The clock stops after this many cleanup intervals ...
MaxIntervals == 5
\* ... and moves at most this many milliseconds past an interval boundary.
MaxJitter == 1
\* Direct use of the store: jobs created and milliseconds elapsed at most.
MaxStoreJobs == 2
MaxStoreClock == 2
\* Two batches side by side: largest imageCount and concurrency of each.
MaxTwoCount == 2
MaxAttempts == 2

\* ------------------------------------------------------------- program constants
MinPromptLength == 3
MinImageCount == 1
MaxImageCount == 10
MinConcurrency == 1
MaxConcurrency == 5
CLEANUP_INTERVAL == 15 * 60 * 1000
JOB_LIFETIME == 60 * 60 * 1000

\* ------------------------------------------------------------- JSON values
\* A value of the request body: t is its JavaScript type; h is twice the
\* number (so that 1.5 is representable) or the length of the string.
Undefined == [t |-> "undefined", h |-> 0]
Num(n) == [t |-> "number", h |-> 2 * n]
Half(n) == [t |-> "number", h |-> n]
Str(len) == [t |-> "string", h |-> len]

\* JavaScript's x < n and x > n for an integer n: every comparison with
\* undefined (NaN after conversion) is false.
JsLess(x, n) == x.t = "number" /\ x.h < 2 * n
JsGreater(x, n) == x.t = "number" /\ x.h > 2 * n
\* n < x for an integer n (the loop tests i < body.imageCount and
\* active.size < concurrency).
JsBelow(n, x) == x.t = "number" /\ 2 * n < x.h
\* !body.prompt: undefined and the empty string are falsy.
JsFalsy(x) == x.t = "undefined" \/ (x.t = "string" /\ x.h = 0)

\* ------------------------------------------------------------- job store
NoValue == "undefined"
Terminal == {"complete", "error"}
JobStatus == {"pending", "generating", "complete", "error"}

\* { ...job, ...updates }
Spread(job, updates) ==
  [f \in DOMAIN job |-> IF f \in DOMAIN updates THEN updates[f] ELSE job[f]]

createJob(js, id, t) ==
  js @@ (id :> [id |-> id, status |-> "pending", imageUrl |-> NoValue,
                error |-> NoValue, createdAt |-> t])

\* What get() of an absent key stands for: no job has id 0 or status
\* `undefined`.
NoJob == [id |-> 0, status |-> NoValue, imageUrl |-> NoValue, error |-> NoValue,
          createdAt |-> 0]
NoBatch == [id |-> 0, jobIds |-> <<>>, concurrency |-> [t |-> "undefined", h |-> 0],
            createdAt |-> 0]

\* Variant: get answers an absent key with a fresh `pending` job.
getJobOrDefault(js, id) ==
  IF id \in DOMAIN js THEN js[id] ELSE [NoJob EXCEPT !.id = id, !.status = "pending"]

getJob(js, id) == IF id \in DOMAIN js THEN js[id] ELSE NoJob

\* Variant: set() without the test of line 47: an absent job is created from
\* the update.
updateJobUpsert(js, id, updates) ==
  IF id \in DOMAIN js THEN [js EXCEPT ![id] = Spread(@, updates)]
  ELSE js @@ (id :> Spread([NoJob EXCEPT !.id = id], updates))

\* Variant: every update stamps the job anew.
updateJobRestamp(js, id, updates) ==
  IF id \in DOMAIN js
    THEN [js EXCEPT ![id] = [Spread(@, updates) EXCEPT !.createdAt = @ + 1]]
    ELSE js

updateJob(js, id, updates) ==
  IF id \in DOMAIN js THEN [js EXCEPT ![id] = Spread(@, updates)] ELSE js

createBatch(bs, id, jobIds, concurrency, t) ==
  bs @@ (id :> [id |-> id, jobIds |-> jobIds, concurrency |-> concurrency,
                createdAt |-> t])

getBatch(bs, id) == IF id \in DOMAIN bs THEN bs[id] ELSE NoBatch

\* Variant: the loop spares the entries created in the millisecond before
\* the cutoff.
SweepLate(m, cutoff) ==
  [id \in {i \in DOMAIN m : ~(m[i].createdAt < cutoff - 1)} |-> m[id]]

\* Variant: the loop also drops the entries created at the cutoff itself.
SweepEarly(m, cutoff) ==
  [id \in {i \in DOMAIN m : ~(m[i].createdAt <= cutoff)} |-> m[id]]

\* One of the two loops of cleanup: drop the entries older than the cutoff.
Sweep(m, cutoff) ==
  [id \in {i \in DOMAIN m : ~(m[i].createdAt < cutoff)} |-> m[id]]

\* ------------------------------------------------------------- provider
ImageUrl == "data:image/png;base64,AAAA"
UpstreamFailures == {"quota exceeded"}
\* generateImage rethrows every failure as `Gemini API error: ${message}`.
GeminiError(msg) ==
  IF msg = "quota exceeded" THEN "Gemini API error: quota exceeded"
  ELSE "Gemini API error: unknown"
MissingKeyError == "GEMINI_API_KEY environment variable is required"
\* Variant: what is thrown is not an Error: the catch block of processJob
\* stores 'Unknown error'.
ThrownUnknown(msg) == [ok |-> FALSE, value |-> "Unknown error"]

Thrown(msg) == [ok |-> FALSE, value |-> msg]
\* What a call of generateImage settles with.
Outcomes ==
  {[ok |-> TRUE, value |-> ImageUrl]}
    \cup {Thrown(GeminiError(m)) : m \in UpstreamFailures}

\* ------------------------------------------------------------- state
VARIABLES
  jobs,          \* JobManager.jobs: id -> Job
  batches,       \* JobManager.batches: id -> Batch
  uuid,          \* randomUUID: the next fresh identifier
  now,           \* Date.now(), in ms
  nextSweep,     \* when the setInterval timer of startCleanupTask is next due
  apiKey,        \* process.env.GEMINI_API_KEY is set
  geminiClient,  \* _geminiClient is constructed
  disp,          \* batch id -> the locals of its processJobs call
  proc,          \* job id -> the state of its processJob call
  microtasks,    \* promise reactions waiting to run
  run,           \* the frame executing now
  req,           \* POST: body
  jobIds,        \* POST: jobIds
  response,      \* the last response of POST
  statusResponse,\* the last response of GET
  call,          \* the last operation invoked on the store or the status route
  client         \* the page in the browser: the state of Home and of its poll loop

vars == <<jobs, batches, uuid, now, nextSweep, apiKey, geminiClient, disp, proc,
          microtasks, run, req, jobIds, response, statusResponse, call, client>>

storeVars == <<jobs, batches>>
dispVars == <<disp, proc, microtasks>>
postVars == <<req, jobIds, response>>
envVars == <<apiKey, geminiClient>>

IdleFrame == [op |-> "idle", b |-> 0, j |-> 0, caller |-> "none"]
Frame(op, b, j, caller) == [op |-> op, b |-> b, j |-> j, caller |-> caller]
NoOutcome == [ok |-> FALSE, value |-> NoValue]
NoRequest == [prompt |-> Undefined, imageCount |-> Undefined, concurrency |-> Undefined]
NoResponse == [status |-> 0, error |-> NoValue, batchId |-> 0, jobIds |-> <<>>,
               jobStatus |-> NoValue]
NoStatusResponse == [status |-> 0, error |-> NoValue, jobId |-> 0,
                     jobStatus |-> NoValue, imageUrl |-> NoValue, jobError |-> NoValue]
\* A direct call: the operation, the identifier it was given or returned,
\* the retention it was given, and the time of the call.
Call(op, id, ms, t) == [op |-> op, id |-> id, ms |-> ms, at |-> t]
NoCall == Call("none", 0, 0, 0)
\* The page before Generate is clicked: request is the state of the fetch of
\* handleGenerate, todo the status queries of the current poll round that
\* are still to be made, seen the answers of the round so far and view the
\* statuses on display.
NoClient == [isGenerating |-> FALSE, request |-> "none", polling |-> FALSE,
             cancelled |-> FALSE, jobIds |-> <<>>, todo |-> {}, seen |-> <<>>,
             view |-> <<>>, error |-> NoValue, attempts |-> 0]

\* The event loop takes a new macrotask only when nothing is running and
\* no promise reaction is waiting.
Quiescent == run.op = "idle" /\ microtasks = <<>>

\* The module of the generate route is loaded at time 0: it starts the
\* cleanup task; no request has been handled.
Init ==
  /\ jobs = <<>>
  /\ batches = <<>>
  /\ uuid = 1
  /\ now = 0
  /\ nextSweep = CLEANUP_INTERVAL
  /\ apiKey \in BOOLEAN
  /\ geminiClient = FALSE
  /\ disp = <<>>
  /\ proc = <<>>
  /\ microtasks = <<>>
  /\ run = IdleFrame
  /\ req = NoRequest
  /\ jobIds = <<>>
  /\ response = NoResponse
  /\ statusResponse = NoStatusResponse
  /\ call = NoCall
  /\ client = NoClient

\* ------------------------------------------------------------- requests
PromptInputs == {Undefined, Str(0), Str(MinPromptLength - 1), Str(MinPromptLength)}
\* Missing, 0, 0.5, the integers up to the bound, one value between two
\* integers, and two values above the upper limit.
ImageCountInputs ==
  {Undefined, Num(0), Half(1), Half(2 * MaxCount - 1)}
    \cup {Num(n) : n \in 1 .. MaxCount}
    \cup {Half(2 * MaxImageCount + 1), Num(MaxImageCount + 1)}
ConcurrencyInputs ==
  {Undefined, Num(0), Half(1), Half(2 * MaxCount - 1)}
    \cup {Num(n) : n \in 1 .. MaxCount}
    \cup {Half(2 * MaxConcurrency + 1), Num(MaxConcurrency + 1)}
Requests == [prompt : PromptInputs, imageCount : ImageCountInputs,
             concurrency : ConcurrencyInputs]

\* POST, lines 57-76: the error message of the first failing check, or
\* NoValue when the body passes all three.
Validation(body) ==
  IF JsFalsy(body.prompt) \/ body.prompt.h < MinPromptLength
    THEN "Prompt must be at least 3 characters"
  ELSE IF JsLess(body.imageCount, MinImageCount)
            \/ JsGreater(body.imageCount, MaxImageCount)
    THEN "Image count must be between 1 and 10"
  ELSE IF JsLess(body.concurrency, MinConcurrency)
            \/ JsGreater(body.concurrency, MaxConcurrency)
    THEN "Concurrency must be between 1 and 5"
  ELSE NoValue

\* POST with a body that fails validation: 400 and nothing else.
PostReject(body) ==
  /\ Quiescent
  /\ Validation(body) # NoValue
  /\ response' = [NoResponse EXCEPT !.status = 400, !.error = Validation(body)]
  /\ UNCHANGED <<storeVars, uuid, now, nextSweep, envVars, dispVars, run, req,
                 jobIds, statusResponse, call, client>>

\* POST with a body that passes validation: the handler starts creating jobs.
PostAccept(body) ==
  /\ Quiescent
  /\ Validation(body) = NoValue
  /\ req' = body
  /\ jobIds' = <<>>
  /\ run' = Frame("POST", 0, 0, "none")
  /\ UNCHANGED <<storeVars, uuid, now, nextSweep, envVars, dispVars, response,
                 statusResponse, call, client>>

\* Variant: the creation loop runs while i <= body.imageCount.
MoreJobsOffByOne ==
  req.imageCount.t = "number" /\ 2 * Len(jobIds) <= req.imageCount.h

\* Line 80: i < body.imageCount, where i is jobIds.length.
MoreJobs == JsBelow(Len(jobIds), req.imageCount)

\* One iteration of the loop of lines 80-83.
PostCreateJob ==
  /\ run.op = "POST"
  /\ MoreJobs
  /\ jobs' = createJob(jobs, uuid, now)
  /\ jobIds' = Append(jobIds, uuid)
  /\ uuid' = uuid + 1
  /\ UNCHANGED <<batches, now, nextSweep, envVars, dispVars, run, req, response,
                 statusResponse, call, client>>

\* Lines 86-89 and 112-113: the batch is stored and processJobs is called;
\* it copies jobIds into its queue and runs in the caller's frame until
\* its first await.
PostCreateBatch ==
  /\ run.op = "POST"
  /\ ~MoreJobs
  /\ batches' = createBatch(batches, uuid, jobIds, req.concurrency, now)
  /\ uuid' = uuid + 1
  /\ disp' = disp @@ (uuid :> [jobIds |-> jobIds, queue |-> jobIds, active |-> {},
                               concurrency |-> req.concurrency, st |-> "running",
                               race |-> "pending"])
  /\ run' = Frame("processJobs", uuid, 0, "POST")
  /\ UNCHANGED <<jobs, now, nextSweep, envVars, proc, microtasks, req, jobIds,
                 response, statusResponse, call, client>>

\* Lines 91-97: processJobs has returned its promise; the handler answers.
PostReturn ==
  /\ run.op = "POST_return"
  /\ response' = [NoResponse EXCEPT !.status = 200, !.batchId = run.b,
                                    !.jobIds = jobIds, !.jobStatus = "pending"]
  /\ run' = IdleFrame
  /\ req' = NoRequest
  /\ jobIds' = <<>>
  /\ UNCHANGED <<storeVars, uuid, now, nextSweep, envVars, dispVars, statusResponse, call, client>>

\* ------------------------------------------------------------- dispatcher
\* The frame that called processJobs gets control back when processJobs
\* reaches an await or returns: POST goes on to its return statement, a
\* resumed continuation simply ends.
BackToCaller(frame) ==
  IF frame.caller = "POST" THEN Frame("POST_return", frame.b, 0, "none") ELSE IdleFrame

\* The batch whose active set holds the promise of job j.
BatchOf(j) == CHOOSE b \in DOMAIN disp : j \in disp[b].active

\* Variant: the inner loop admits while active.size <= concurrency.
CanAdmitOffByOne(d) ==
  d.concurrency.t = "number" /\ 2 * Cardinality(d.active) <= d.concurrency.h
    /\ Len(d.queue) > 0

\* Variant: one budget for all batches: the slots in use are counted over
\* every dispatcher.
CanAdmitShared(d) ==
  /\ JsBelow(Cardinality(UNION {disp[b].active : b \in DOMAIN disp}), d.concurrency)
  /\ Len(d.queue) > 0

\* Line 117: the condition of the inner loop.
CanAdmit(d) == JsBelow(Cardinality(d.active), d.concurrency) /\ Len(d.queue) > 0

\* Variant: the dispatcher takes the last element (pop) instead of the first.
DequeueLast(q) == [job |-> q[Len(q)], rest |-> SubSeq(q, 1, Len(q) - 1)]

\* Variant: the dispatcher reads the head of the queue and leaves it there.
DequeuePeek(q) == [job |-> Head(q), rest |-> q]

\* Line 118: queue.shift().
Dequeue(q) == [job |-> Head(q), rest |-> Tail(q)]

\* Variant: processJob does not mark the job before calling the provider.
GeneratingUpdateSkipped == [status |-> "pending"]

\* Line 134: the first write of processJob.
GeneratingUpdate == [status |-> "generating"]

\* Variant: the catch block stores a fixed text instead of error.message.
TerminalUpdateUnknown(out) ==
  IF out.ok THEN [status |-> "complete", imageUrl |-> out.value]
            ELSE [status |-> "error", error |-> "Unknown error"]

\* Variant: the success write forgets the image.
TerminalUpdateNoImage(out) ==
  IF out.ok THEN [status |-> "complete"]
            ELSE [status |-> "error", error |-> out.value]

\* Lines 143-151: the write after the provider call, by its outcome.
TerminalUpdate(out) ==
  IF out.ok THEN [status |-> "complete", imageUrl |-> out.value]
            ELSE [status |-> "error", error |-> out.value]

\* Variant: processJob has no catch block: a failure rejects its promise.
processJobPromiseRethrow(out) == IF out.ok THEN "fulfilled" ELSE "rejected"

\* Lines 132-153: the whole body of processJob is inside try/catch and the
\* catch block only calls updateJob: whatever the outcome of the try block,
\* the promise of processJob is fulfilled.
processJobPromise(out) == "fulfilled"

\* Lines 117-119 and 134: the inner loop takes the head of the queue and
\* calls processJob, which first writes `generating`.
Admit ==
  /\ run.op = "processJobs"
  /\ LET d == disp[run.b] IN
       /\ CanAdmit(d)
       /\ disp' = [disp EXCEPT ![run.b].queue = Dequeue(d.queue).rest]
       /\ jobs' = updateJob(jobs, Dequeue(d.queue).job, GeneratingUpdate)
       /\ run' = [run EXCEPT !.op = "processJob", !.j = Dequeue(d.queue).job]
  /\ UNCHANGED <<batches, uuid, now, nextSweep, envVars, proc, microtasks,
                 postVars, statusResponse, call, client>>

\* Lines 136-141 and 119-122: getGeminiClient returns the client
\* (constructing it on first use), generateImage is called and processJob
\* suspends on its promise; processJobs adds the promise to active.
StartCall ==
  /\ run.op = "processJob"
  /\ geminiClient \/ apiKey
  /\ geminiClient' = TRUE
  /\ proc' = proc @@ (run.j :> [st |-> "calling", out |-> NoOutcome,
                                 promise |-> "pending"])
  /\ disp' = [disp EXCEPT ![run.b].active = @ \cup {run.j}]
  /\ run' = [run EXCEPT !.op = "processJobs", !.j = 0]
  /\ UNCHANGED <<storeVars, uuid, now, nextSweep, apiKey, microtasks, postVars,
                 statusResponse, call, client>>

\* Lines 136 and 147-152: the constructor of GeminiClient throws, the
\* catch block writes `error` and processJob returns a promise that is
\* already resolved; its finally reaction is queued at once.
ClientFails ==
  /\ run.op = "processJob"
  /\ ~(geminiClient \/ apiKey)
  /\ jobs' = updateJob(jobs, run.j, TerminalUpdate(Thrown(MissingKeyError)))
  /\ proc' = proc @@ (run.j :> [st |-> "returned", out |-> Thrown(MissingKeyError),
                                 promise |-> processJobPromise(Thrown(MissingKeyError))])
  /\ disp' = [disp EXCEPT ![run.b].active = @ \cup {run.j}]
  /\ microtasks' = Append(microtasks, <<"finally", run.j>>)
  /\ run' = [run EXCEPT !.op = "processJobs", !.j = 0]
  /\ UNCHANGED <<batches, uuid, now, nextSweep, envVars, postVars, statusResponse, call, client>>

\* Lines 126-128: nothing more can be admitted and something is active:
\* await Promise.race(active).
Await ==
  /\ run.op = "processJobs"
  /\ LET d == disp[run.b] IN
       /\ ~CanAdmit(d)
       /\ Cardinality(d.active) > 0
  /\ disp' = [disp EXCEPT ![run.b].st = "waiting"]
  /\ run' = BackToCaller(run)
  /\ UNCHANGED <<storeVars, uuid, now, nextSweep, envVars, proc, microtasks,
                 postVars, statusResponse, call, client>>

\* Line 115: the queue and the active set are empty: processJobs returns.
Finish ==
  /\ run.op = "processJobs"
  /\ LET d == disp[run.b] IN Len(d.queue) = 0 /\ Cardinality(d.active) = 0
  /\ disp' = [disp EXCEPT ![run.b].st = "done"]
  /\ run' = BackToCaller(run)
  /\ UNCHANGED <<storeVars, uuid, now, nextSweep, envVars, proc, microtasks,
                 postVars, statusResponse, call, client>>

\* Lines 115-129: the queue is not empty, nothing is active and the inner
\* loop admits nothing: the outer loop goes round without an await.
Spin ==
  /\ run.op = "processJobs"
  /\ LET d == disp[run.b] IN
       /\ ~CanAdmit(d)
       /\ Cardinality(d.active) = 0
       /\ Len(d.queue) > 0
  /\ UNCHANGED vars

\* ------------------------------------------------------------- macrotasks
\* The provider answers the call of job j: the promise of generateImage
\* settles and the continuation of processJob is queued.
Settle(j, out) ==
  /\ Quiescent
  /\ j \in DOMAIN proc
  /\ proc[j].st = "calling"
  /\ proc' = [proc EXCEPT ![j].st = "settled", ![j].out = out]
  /\ microtasks' = Append(microtasks, <<"continue", j>>)
  /\ UNCHANGED <<storeVars, uuid, now, nextSweep, envVars, disp, run, postVars,
                 statusResponse, call, client>>

\* ------------------------------------------------------------- microtasks
\* Lines 143-152: processJob resumes after its await and writes the
\* terminal status; its promise resolves.
Continue ==
  /\ run.op = "idle"
  /\ microtasks # <<>>
  /\ Head(microtasks)[1] = "continue"
  /\ LET j == Head(microtasks)[2]
         out == proc[j].out
     IN /\ jobs' = updateJob(jobs, j, TerminalUpdate(out))
        /\ proc' = [proc EXCEPT ![j].st = "returned",
                                 ![j].promise = processJobPromise(out)]
        /\ microtasks' = Append(Tail(microtasks), <<"finally", j>>)
  /\ UNCHANGED <<batches, uuid, now, nextSweep, envVars, disp, run, postVars,
                 statusResponse, call, client>>

\* Lines 119-121: the finally callback deletes the promise from active;
\* the promise returned by finally then settles as the promise of
\* processJob did, which settles the pending race, if any, the same way and
\* queues the continuation of processJobs.
Finally ==
  /\ run.op = "idle"
  /\ microtasks # <<>>
  /\ Head(microtasks)[1] = "finally"
  /\ LET j == Head(microtasks)[2]
         b == BatchOf(j)
     IN /\ proc' = [proc EXCEPT ![j].st = "finished"]
        /\ IF disp[b].st = "waiting"
             THEN /\ disp' = [disp EXCEPT ![b].active = @ \ {j}, ![b].st = "resumable",
                                          ![b].race = proc[j].promise]
                  /\ microtasks' = Append(Tail(microtasks), <<"resume", b>>)
             ELSE /\ disp' = [disp EXCEPT ![b].active = @ \ {j}]
                  /\ microtasks' = Tail(microtasks)
  /\ UNCHANGED <<storeVars, uuid, now, nextSweep, envVars, run, postVars,
                 statusResponse, call, client>>

\* Line 127: processJobs resumes after its await: it goes round the loop
\* if the race was fulfilled; a rejected race is thrown by the await and,
\* there being no try block, rejects the promise of processJobs.
Resume ==
  /\ run.op = "idle"
  /\ microtasks # <<>>
  /\ Head(microtasks)[1] = "resume"
  /\ LET b == Head(microtasks)[2]
     IN IF disp[b].race = "rejected"
          THEN /\ disp' = [disp EXCEPT ![b].st = "rejected"]
               /\ run' = run
          ELSE /\ disp' = [disp EXCEPT ![b].st = "running", ![b].race = "pending"]
               /\ run' = Frame("processJobs", b, 0, "microtask")
  /\ microtasks' = Tail(microtasks)
  /\ UNCHANGED <<storeVars, uuid, now, nextSweep, envVars, proc, postVars,
                 statusResponse, call, client>>

\* ------------------------------------------------------------- cleanup and clock
cleanup(olderThanMs) ==
  /\ jobs' = Sweep(jobs, now - olderThanMs)
  /\ batches' = Sweep(batches, now - olderThanMs)

\* The interval timer of startCleanupTask fires (never early).
CleanupTask ==
  /\ Quiescent
  /\ now >= nextSweep
  /\ cleanup(JOB_LIFETIME)
  /\ nextSweep' = now + CLEANUP_INTERVAL
  /\ UNCHANGED <<uuid, now, envVars, dispVars, run, postVars, statusResponse, call, client>>

\* Time passes. The clock is read by createJob, createBatch and cleanup
\* only, so it is advanced where one of them can run next: by a millisecond
\* inside the creation loop of POST, by a cleanup interval between two
\* macrotasks. The timer is served once it is due: the clock does not pass
\* the due time by more than the jitter before CleanupTask runs.
Tick(d) ==
  /\ \/ Quiescent /\ d = CLEANUP_INTERVAL
     \/ run.op = "POST" /\ d = 1 /\ (now % CLEANUP_INTERVAL) < MaxJitter
  /\ now + d <= MaxIntervals * CLEANUP_INTERVAL + MaxJitter
  /\ now + d <= nextSweep + MaxJitter
  /\ now' = now + d
  /\ UNCHANGED <<storeVars, uuid, nextSweep, envVars, dispVars, run, postVars,
                 statusResponse, call, client>>

TickSteps == {1, CLEANUP_INTERVAL}

\* ------------------------------------------------------------- status
\* GET /api/status/[jobId].
GET(jobId) ==
  /\ Quiescent
  /\ statusResponse' =
       LET job == getJob(jobs, jobId) IN
         IF job = NoJob
           THEN [NoStatusResponse EXCEPT !.status = 404, !.error = "Job not found"]
           ELSE [NoStatusResponse EXCEPT !.status = 200,
                   !.jobId = job.id, !.jobStatus = job.status,
                   !.imageUrl = job.imageUrl, !.jobError = job.error]
  /\ call' = Call("GET", jobId, 0, now)
  /\ UNCHANGED <<storeVars, uuid, now, nextSweep, envVars, dispVars, run, postVars>>

\* The identifiers a client can ask for: those handed out so far and one
\* that was never created.
JobIdInputs == 1 .. uuid

\* Fewer than n batches have been dispatched.
FewerBatches(n) == Cardinality(DOMAIN disp) < n

Next ==
  \/ \E body \in Requests : FewerBatches(MaxBatches) /\ PostReject(body)
  \/ \E body \in Requests : FewerBatches(MaxBatches) /\ PostAccept(body)
  \/ PostCreateJob
  \/ PostCreateBatch
  \/ PostReturn
  \/ Admit
  \/ StartCall
  \/ ClientFails
  \/ Await
  \/ Finish
  \/ Spin
  \/ \E j \in DOMAIN proc, out \in Outcomes : Settle(j, out)
  \/ Continue
  \/ Finally
  \/ Resume
  \/ CleanupTask
  \/ \E d \in TickSteps : Tick(d)

Spec == Init /\ [][Next]_vars

\* ------------------------------------------------------------- the store alone
\* JobManager used directly, as its unit tests use it: any sequence of
\* createJob, createBatch, updateJob, cleanup calls and status queries,
\* with the clock moving in between.
UpdateInputs ==
  {[status |-> st] : st \in {"generating", "complete"}}
    \cup {[status |-> "complete", imageUrl |-> "test.png"]}
    \cup {[status |-> "error", error |-> GeminiError("quota exceeded")]}
RetentionInputs == {0, 1, JOB_LIFETIME}

CallCreateJob ==
  /\ uuid <= MaxStoreJobs
  /\ jobs' = createJob(jobs, uuid, now)
  /\ uuid' = uuid + 1
  /\ call' = Call("createJob", uuid, 0, now)
  /\ UNCHANGED <<batches, now, nextSweep, envVars, dispVars, run, postVars,
                 statusResponse, client>>

\* createBatch over the identifiers of the jobs created so far.
CallCreateBatch(concurrency) ==
  /\ uuid <= MaxStoreJobs
  /\ batches' = createBatch(batches, uuid, [i \in 1 .. uuid - 1 |-> i],
                            concurrency, now)
  /\ uuid' = uuid + 1
  /\ call' = Call("createBatch", uuid, 0, now)
  /\ UNCHANGED <<jobs, now, nextSweep, envVars, dispVars, run, postVars,
                 statusResponse, client>>

CallUpdateJob(id, updates) ==
  /\ jobs' = updateJob(jobs, id, updates)
  /\ call' = Call("updateJob", id, 0, now)
  /\ UNCHANGED <<batches, uuid, now, nextSweep, envVars, dispVars, run, postVars,
                 statusResponse, client>>

CallCleanup(olderThanMs) ==
  /\ cleanup(olderThanMs)
  /\ call' = Call("cleanup", 0, olderThanMs, now)
  /\ UNCHANGED <<uuid, now, nextSweep, envVars, dispVars, run, postVars,
                 statusResponse, client>>

ClockAdvances ==
  /\ now < MaxStoreClock
  /\ now' = now + 1
  /\ UNCHANGED <<storeVars, uuid, nextSweep, envVars, dispVars, run, postVars,
                 statusResponse, call, client>>

StoreNext ==
  \/ CallCreateJob
  \/ CallCreateBatch(Num(1))
  \/ \E id \in JobIdInputs, updates \in UpdateInputs : CallUpdateJob(id, updates)
  \/ \E ms \in RetentionInputs : CallCleanup(ms)
  \/ \E id \in JobIdInputs : GET(id) /\ UNCHANGED client
  \/ ClockAdvances

StoreSpec == Init /\ [][StoreNext]_vars

\* The event loop runs what is runnable: the frame in progress, then the
\* queued promise reactions.
EventLoopStep ==
  \/ PostCreateJob \/ PostCreateBatch \/ PostReturn
  \/ Admit \/ StartCall \/ ClientFails \/ Await \/ Finish
  \/ Continue \/ Finally \/ Resume

\* Every provider call in flight eventually settles.
ProviderAnswers == \E j \in DOMAIN proc, out \in Outcomes : Settle(j, out)

\* Spec with a fair event loop and a provider that answers every call.
FairSpec == Spec /\ WF_vars(EventLoopStep) /\ WF_vars(ProviderAnswers)

\* ------------------------------------------------------------- two batches
\* Two well-formed requests, the second arriving while the first batch is
\* being dispatched; the clock stands still (no sweep is due).
TwoRequests ==
  [prompt : {Str(MinPromptLength)},
   imageCount : {Num(n) : n \in 1 .. MaxTwoCount},
   concurrency : {Num(k) : k \in 1 .. MaxTwoCount}]

TwoBatchNext ==
  \/ \E body \in TwoRequests : FewerBatches(2) /\ PostAccept(body)
  \/ PostCreateJob
  \/ PostCreateBatch
  \/ PostReturn
  \/ Admit
  \/ StartCall
  \/ ClientFails
  \/ Await
  \/ Finish
  \/ \E j \in DOMAIN proc, out \in Outcomes : Settle(j, out)
  \/ Continue
  \/ Finally
  \/ Resume

TwoBatchSpec == Init /\ [][TwoBatchNext]_vars

\* The elements of a sequence.
Range(seq) == {seq[i] : i \in 1 .. Len(seq)}

\* The provider answers a call of batch b.
AnswersFor(b) ==
  \E j \in DOMAIN proc, out \in Outcomes :
    b \in DOMAIN disp /\ j \in Range(disp[b].jobIds) /\ Settle(j, out)

\* Two batches under a fair event loop; which provider calls are answered is
\* left open.
TwoBatchFair == TwoBatchSpec /\ WF_vars(EventLoopStep)

\* ------------------------------------------------------------- one batch
\* One request that passes validation with a numeric concurrency, whole or
\* not, and the dispatch of its batch; the clock stands still.
DispatchRequests ==
  [prompt : {Str(MinPromptLength)},
   imageCount : {Num(n) : n \in 1 .. MaxCount},
   concurrency : {Num(k) : k \in 1 .. MaxCount}
                   \cup {Half(2 * k + 1) : k \in 1 .. MaxCount - 1}]

DispatchNext ==
  \/ \E body \in DispatchRequests : FewerBatches(1) /\ PostAccept(body)
  \/ PostCreateJob
  \/ PostCreateBatch
  \/ PostReturn
  \/ Admit
  \/ StartCall
  \/ ClientFails
  \/ Await
  \/ Finish
  \/ \E j \in DOMAIN proc, out \in Outcomes : Settle(j, out)
  \/ Continue
  \/ Finally
  \/ Resume

DispatchSpec == Init /\ [][DispatchNext]_vars

\* ------------------------------------------------------------- the page
\* Everything that lives on the server.
serverVars == <<storeVars, uuid, now, nextSweep, envVars, dispVars, run, postVars,
                statusResponse, call>>

\* page.tsx, lines 26-48: Generate is clicked (the button is enabled while
\* nothing is being generated): the error is cleared, isGenerating is set,
\* the gallery is emptied and the request is sent (the form sends an integer
\* imageCount and concurrency). The page is followed up to its first
\* accepted request.
ClientGenerate ==
  /\ ~client.isGenerating
  /\ client.request \in {"none", "failed"}
  /\ client.attempts < MaxAttempts
  /\ client' = [client EXCEPT !.isGenerating = TRUE, !.request = "sent",
                              !.error = NoValue, !.view = <<>>,
                              !.attempts = @ + 1]
  /\ UNCHANGED serverVars

\* The request of the page reaches the server.
ClientRequestArrives(body) ==
  /\ client.request = "sent"
  /\ FewerBatches(1)
  /\ PostAccept(body)

\* route.ts, lines 53-54 and 98-103: handling the request throws (its body
\* cannot be read): the handler answers 500 and creates nothing.
ClientRequestFails ==
  /\ client.request = "sent"
  /\ Quiescent
  /\ FewerBatches(1)
  /\ response' = [NoResponse EXCEPT !.status = 500, !.error = "Internal server error"]
  /\ client' = [client EXCEPT !.request = "refused"]
  /\ UNCHANGED <<storeVars, uuid, now, nextSweep, envVars, dispVars, run, req,
                 jobIds, statusResponse, call>>

\* Variant: the page shows its own message whatever the server said.
ErrorMessageDefault(data) == "Generation failed"

\* Line 52: the message of the Error thrown for a response that is not ok.
ErrorMessage(data) == IF data.error = NoValue THEN "Generation failed" ELSE data.error

\* Lines 50-53 and 66-69: the response is not ok: the message is shown and
\* isGenerating is cleared; pollJobs is not called.
ClientFailure ==
  /\ client.request = "refused"
  /\ client' = [client EXCEPT !.request = "failed", !.isGenerating = FALSE,
                              !.error = ErrorMessage(response)]
  /\ UNCHANGED serverVars

\* Lines 55-65: the response arrives: the page lists the jobs as `pending`
\* and starts pollJobs, unless the generation was cancelled meanwhile.
ClientResponse ==
  /\ client.request = "sent"
  /\ Quiescent
  /\ response.status = 200
  /\ client' =
       IF client.cancelled
         THEN [client EXCEPT !.request = "answered"]
         ELSE [client EXCEPT !.request = "answered", !.polling = TRUE,
                             !.jobIds = response.jobIds,
                             !.todo = Range(response.jobIds),
                             !.view = [j \in Range(response.jobIds) |-> "pending"]]
  /\ UNCHANGED serverVars

\* Variant: the queries go on for the jobs of the page whether or not
\* its poll loop is still running.
ClientQueryRegardless(id) ==
  /\ id \in Range(client.jobIds)
  /\ GET(id)
  /\ client' = [client EXCEPT !.seen = (id :> statusResponse'.jobStatus) @@ @]

\* Lines 79-83: one status query of the current round and its answer (an
\* answer 404 carries no status).
ClientQuery(id) ==
  /\ client.polling
  /\ id \in client.todo
  /\ GET(id)
  /\ client' = [client EXCEPT !.todo = @ \ {id},
                              !.seen = (id :> statusResponse'.jobStatus) @@ @]

\* Lines 87-89: every status of the round is `complete` or `error`.
AllComplete(statuses) == \A j \in DOMAIN statuses : statuses[j] \in Terminal

\* Lines 84-92 and 76-77: the round is over: the statuses are displayed; the
\* loop ends, clearing isGenerating, when all are terminal, and starts the
\* next round otherwise.
ClientRoundEnd ==
  /\ client.polling
  /\ client.todo = {}
  /\ client' =
       IF AllComplete(client.seen)
         THEN [client EXCEPT !.view = client.seen, !.seen = <<>>,
                             !.polling = FALSE, !.isGenerating = FALSE]
         ELSE [client EXCEPT !.view = client.seen, !.seen = <<>>,
                             !.todo = Range(client.jobIds)]
  /\ UNCHANGED serverVars

\* Cancel is clicked during a generation: the page stops polling and shows
\* the Generate button again; nothing is sent to the server.
ClientCancel ==
  /\ client.isGenerating
  /\ client' = [client EXCEPT !.isGenerating = FALSE, !.polling = FALSE,
                              !.cancelled = TRUE, !.todo = {}, !.seen = <<>>]
  /\ UNCHANGED serverVars

\* One page and the batch it asks for; the clock stands still.
CancelNext ==
  \/ ClientGenerate
  \/ \E body \in TwoRequests : ClientRequestArrives(body)
  \/ ClientResponse
  \/ \E id \in JobIdInputs : ClientQuery(id)
  \/ ClientRoundEnd
  \/ ClientCancel
  \/ PostCreateJob
  \/ PostCreateBatch
  \/ PostReturn
  \/ Admit
  \/ StartCall
  \/ ClientFails
  \/ Await
  \/ Finish
  \/ \E j \in DOMAIN proc, out \in Outcomes : Settle(j, out)
  \/ Continue
  \/ Finally
  \/ Resume

\* The page and its batch under a fair event loop and a provider that
\* answers every call; the page itself may do anything or nothing.
CancelSpec ==
  Init /\ [][CancelNext]_vars /\ WF_vars(EventLoopStep) /\ WF_vars(ProviderAnswers)

\* Time passes. A fetch of the page is answered, and a round of its poll
\* loop (every 2 seconds) is made, in less than a cleanup interval: the
\* clock moves by an interval only while no request of the page is in flight
\* and, during polling, between two rounds and after a whole round was made
\* at the present time.
PollTick(d) ==
  /\ d = CLEANUP_INTERVAL =>
       /\ client.request \notin {"sent", "refused"}
       /\ client.polling =>
            /\ client.todo = Range(client.jobIds) /\ client.seen = <<>>
            /\ call.op = "GET" /\ call.at = now
  /\ Tick(d)

\* The page as page.tsx has it (no Cancel), the batch it asks for and the
\* cleanup task.
PollNext ==
  \/ ClientGenerate
  \/ \E body \in TwoRequests : ClientRequestArrives(body)
  \/ ClientRequestFails
  \/ ClientFailure
  \/ ClientResponse
  \/ \E id \in JobIdInputs : ClientQuery(id)
  \/ ClientRoundEnd
  \/ PostCreateJob
  \/ PostCreateBatch
  \/ PostReturn
  \/ Admit
  \/ StartCall
  \/ ClientFails
  \/ Await
  \/ Finish
  \/ \E j \in DOMAIN proc, out \in Outcomes : Settle(j, out)
  \/ Continue
  \/ Finally
  \/ Resume
  \/ CleanupTask
  \/ \E d \in TickSteps : PollTick(d)

\* What the page does next without the user: the responses of its fetches
\* arrive and the timer of its poll loop fires.
PollStep ==
  \/ ClientFailure \/ ClientResponse \/ ClientRoundEnd
  \/ \E id \in JobIdInputs : ClientQuery(id)

\* PollNext under a fair event loop, an answering provider and a poll loop
\* whose timer keeps firing.
PollSpec ==
  Init /\ [][PollNext]_vars /\ WF_vars(EventLoopStep) /\ WF_vars(ProviderAnswers)
       /\ WF_vars(PollStep)

\* Spec with a fair event loop, a clock that keeps moving and an interval
\* timer that fires when it is due and the loop is free; provider calls may
\* stay unanswered.
SweepSpec ==
  Spec /\ WF_vars(EventLoopStep) /\ WF_vars(Tick(CLEANUP_INTERVAL))
       /\ WF_vars(CleanupTask)

\* ------------------------------------------------------------- properties
Stored(j) == j \in DOMAIN jobs
StatusOf(j) == getJob(jobs, j).status
\* The jobs of the batch that dispatcher b closes over.
JobsOf(b) == Range(disp[b].jobIds)
GeneratingOf(b) == {j \in JobsOf(b) : StatusOf(j) = "generating"}
IsInteger(x) == x.t = "number" /\ x.h % 2 = 0
InRange(x, lo, hi) == IsInteger(x) /\ 2 * lo <= x.h /\ x.h <= 2 * hi

\* C1: for every batch dispatched with an integer concurrency K in 1..5, at
\* most K of its jobs have status `generating` in the job store, in every
\* reachable state (whatever the order of provider completions and cleanup
\* sweeps).
C1_ConcurrencyCap ==
  \A b \in DOMAIN disp :
    InRange(disp[b].concurrency, MinConcurrency, MaxConcurrency)
      => 2 * Cardinality(GeneratingOf(b)) <= disp[b].concurrency.h

\* C1 witness: a batch with K = 2 holds exactly 2 generating jobs while
\* another job of it is still queued and pending.
C1_Witness ==
  \E b \in DOMAIN disp :
    /\ disp[b].concurrency = Num(2)
    /\ Cardinality(GeneratingOf(b)) = 2
    /\ disp[b].st = "waiting"
    /\ \E j \in Range(disp[b].queue) : StatusOf(j) = "pending"

\* The identifiers randomUUID hands out within the bounds.
Ids == 1 .. (MaxCount + 1) * MaxBatches
Gone(j) == ~Stored(j)
\* Dispatcher b has emptied its queue and none of its jobs is left
\* `pending` or `generating` in the store.
Drained(b) ==
  /\ disp[b].queue = <<>>
  /\ \A j \in JobsOf(b) : Gone(j) \/ StatusOf(j) \in Terminal

\* C2: for every accepted batch, given a fair dispatcher and a provider
\* that resolves every call, eventually the dispatcher's queue is empty and
\* every job of the batch is `complete` or `error` or was removed by cleanup.
C2_EveryBatchDrains ==
  \A b \in Ids : (b \in DOMAIN disp) ~> (b \in DOMAIN disp /\ Drained(b))

\* The step in which the promise of processJob(j) resolves.
Returns(j) ==
  /\ j \in DOMAIN proc'
  /\ proc'[j].st = "returned"
  /\ (j \in DOMAIN proc => proc[j].st # "returned")
\* Job record r carries exactly what outcome out writes.
Reflects(r, out) ==
  IF out.ok
    THEN r.status = "complete" /\ r.imageUrl = out.value /\ r.error = NoValue
    ELSE r.status = "error" /\ r.error = out.value /\ r.imageUrl = NoValue

Transitions ==
  {<<"pending", "generating">>, <<"generating", "complete">>, <<"generating", "error">>}

\* C5: a job enters the store `pending`; afterwards every change of a stored
\* job is one of pending -> generating, generating -> complete, generating ->
\* error; in particular a `complete` or `error` job is never changed again.
C5_StatusOrder ==
  [][\A j \in DOMAIN jobs' :
       IF j \in DOMAIN jobs
         THEN jobs'[j] = jobs[j] \/ <<jobs[j].status, jobs'[j].status>> \in Transitions
         ELSE jobs'[j].status = "pending"]_vars

\* C5 witness: jobs have walked both paths: one is `complete`, one is
\* `error`, and a third has not been admitted yet.
C5_Witness ==
  \E j, k, l \in DOMAIN jobs :
    StatusOf(j) = "complete" /\ StatusOf(k) = "error" /\ StatusOf(l) = "pending"

\* C6: for every stored job, imageUrl is set exactly when status is
\* `complete` and error is set exactly when status is `error`.
C6_FieldsMatchStatus ==
  \A j \in DOMAIN jobs :
    /\ (jobs[j].imageUrl # NoValue) <=> (jobs[j].status = "complete")
    /\ (jobs[j].error # NoValue) <=> (jobs[j].status = "error")

\* C6 witness: the store holds a `complete` job with its image, an `error`
\* job with its message and a job in progress with neither.
C6_Witness ==
  \E j, k, l \in DOMAIN jobs :
    /\ jobs[j].status = "complete" /\ jobs[j].imageUrl = ImageUrl
    /\ jobs[k].status = "error" /\ jobs[k].error # NoValue
    /\ jobs[l].status = "generating"

\* Job at position j of the list is never `generating` or terminal while
\* the job at an earlier position i is `pending`.
AdmissionOrder ==
  \A b \in DOMAIN disp : \A i, j \in 1 .. Len(disp[b].jobIds) :
    (i < j /\ StatusOf(disp[b].jobIds[j]) \in {"generating", "complete", "error"})
      => StatusOf(disp[b].jobIds[i]) # "pending"

\* The step in which dispatcher b hands job j to processJob.
Admits(b, j) ==
  run.op = "processJobs" /\ run'.op = "processJob" /\ run'.b = b /\ run'.j = j

\* C7 as stated: admission follows the order of jobIds, and with
\* concurrency 1 the job at position i+1 is admitted only when the job at
\* position i is `complete` or `error`.
C7_SequentialAlways ==
  [][/\ AdmissionOrder'
     /\ \A b \in DOMAIN disp : \A i \in 1 .. Len(disp[b].jobIds) - 1 :
          (disp[b].concurrency = Num(1) /\ Admits(b, disp[b].jobIds[i + 1]))
            => StatusOf(disp[b].jobIds[i]) \in Terminal]_vars

\* C7 amended: admission follows the order of jobIds (a later job is never
\* `generating` or terminal while an earlier one is `pending`), and with
\* concurrency 1 the job at position i+1 is admitted only when processJob of
\* the job at position i has returned, that job being `complete` or `error`
\* unless cleanup has removed it from the store.
C7_Sequential ==
  [][/\ AdmissionOrder'
     /\ \A b \in DOMAIN disp : \A i \in 1 .. Len(disp[b].jobIds) - 1 :
          (disp[b].concurrency = Num(1) /\ Admits(b, disp[b].jobIds[i + 1]))
            => /\ proc[disp[b].jobIds[i]].st = "finished"
               /\ Gone(disp[b].jobIds[i]) \/ StatusOf(disp[b].jobIds[i]) \in Terminal]_vars

\* C7 witness: with concurrency 1 and three jobs, the first is terminal,
\* the second is `generating` and the third is still `pending`.
C7_Witness ==
  \E b \in DOMAIN disp :
    /\ disp[b].concurrency = Num(1) /\ Len(disp[b].jobIds) = 3
    /\ StatusOf(disp[b].jobIds[1]) \in Terminal
    /\ StatusOf(disp[b].jobIds[2]) = "generating"
    /\ StatusOf(disp[b].jobIds[3]) = "pending"

\* C8: whenever the submit handler returns its response, no job of the batch
\* is `complete` or `error` yet.
C8_ReturnsBeforeTerminal ==
  [][PostReturn => \A j \in Range(jobIds) : StatusOf(j)' \notin Terminal]_vars

\* The request shape of the interface: prompt of at least 3 characters,
\* imageCount an integer in [1,10], concurrency an integer in [1,5].
WellFormed(body) ==
  /\ body.prompt.t = "string" /\ body.prompt.h >= MinPromptLength
  /\ InRange(body.imageCount, MinImageCount, MaxImageCount)
  /\ InRange(body.concurrency, MinConcurrency, MaxConcurrency)

\* C9: a request that is not well-formed is answered 400 and changes
\* nothing: the handler never goes on to create jobs for it.
C9_InvalidRejected ==
  [][\A body \in Requests :
       ~WellFormed(body) =>
         /\ ~PostAccept(body)
         /\ PostReject(body) => (response'.status = 400 /\ UNCHANGED <<storeVars, dispVars>>)]_vars

C4_TerminalFinal ==
  [][\A j \in DOMAIN jobs \cap DOMAIN jobs' :
       jobs[j].status \in Terminal =>
         /\ jobs'[j].status = jobs[j].status
         /\ jobs'[j].imageUrl = jobs[j].imageUrl
         /\ jobs'[j].error = jobs[j].error]_vars

\* C11: a status query for an identifier that is not in the store (never
\* created, or removed by cleanup) is answered 404 `Job not found`; a query
\* for a stored job is answered with its id and its current status,
\* imageUrl and error; either way the query leaves jobs and batches as they
\* were.
C11_StatusQuery ==
  [][\A id \in JobIdInputs :
       GET(id) =>
         /\ UNCHANGED storeVars
         /\ IF id \in DOMAIN jobs
              THEN /\ statusResponse'.status = 200
                   /\ statusResponse'.jobId = id
                   /\ statusResponse'.jobStatus = jobs[id].status
                   /\ statusResponse'.imageUrl = jobs[id].imageUrl
                   /\ statusResponse'.jobError = jobs[id].error
              ELSE /\ statusResponse'.status = 404
                   /\ statusResponse'.error = "Job not found"
                   /\ statusResponse'.jobId = 0
                   /\ statusResponse'.jobStatus = NoValue]_vars

\* C11 witness: the last operation was a query for a job that had been
\* created and then removed by cleanup; it was answered 404 while another
\* job is still stored.
C11_Witness ==
  /\ call.op = "GET"
  /\ call.id < uuid
  /\ call.id \notin DOMAIN jobs \cup DOMAIN batches
  /\ statusResponse.status = 404
  /\ jobs # <<>>

\* C12: updateJob on an identifier that is not in the store (never created,
\* or reclaimed) completes, creates no job under that identifier and leaves
\* every stored job and batch as it was.
C12_UpdateOfAbsentJob ==
  [][\A id \in JobIdInputs, updates \in UpdateInputs :
       id \notin DOMAIN jobs =>
         /\ ENABLED CallUpdateJob(id, updates)
         /\ CallUpdateJob(id, updates) =>
              /\ id \notin DOMAIN jobs'
              /\ jobs' = jobs
              /\ batches' = batches]_vars

\* C12 witness: the last operation was updateJob on the identifier of a
\* job that cleanup had removed, while another job is stored; the
\* identifier is still absent.
C12_Witness ==
  /\ call.op = "updateJob"
  /\ call.id < uuid
  /\ call.id \notin DOMAIN jobs \cup DOMAIN batches
  /\ jobs # <<>>

\* The identifiers handed out so far.
Issued == 1 .. uuid - 1

\* C13: when cleanup(maxAgeMs) returns, every job and every batch whose
\* createdAt is earlier than now - maxAgeMs is gone (getJob / getBatch
\* answer not found), and an identifier that is gone stays gone under every
\* later operation.
C13_CleanupRemovesOld ==
  [][/\ \A ms \in RetentionInputs :
          CallCleanup(ms) =>
            \A id \in Issued :
              /\ (id \in DOMAIN jobs /\ jobs[id].createdAt < now - ms)
                   => getJob(jobs', id) = NoJob
              /\ (id \in DOMAIN batches /\ batches[id].createdAt < now - ms)
                   => getBatch(batches', id) = NoBatch
     /\ \A id \in Issued :
          (getJob(jobs, id) = NoJob /\ getBatch(batches, id) = NoBatch)
            => (getJob(jobs', id) = NoJob /\ getBatch(batches', id) = NoBatch)]_vars

\* C13 witness: the last operation was cleanup(1); it removed an entry
\* older than one millisecond and a younger job is still stored.
C13_Witness ==
  /\ call.op = "cleanup" /\ call.ms = 1 /\ call.at = now
  /\ \E id \in Issued : id \notin DOMAIN jobs \cup DOMAIN batches
  /\ \E id \in DOMAIN jobs : ~(jobs[id].createdAt < now - 1)

\* C14: when createJob is followed by cleanup(0) with no operation in
\* between, the job is not in the store afterwards (getJob answers not
\* found).
C14_ZeroRetentionRemoves ==
  [][(call.op = "createJob" /\ CallCleanup(0)) => getJob(jobs', call.id) = NoJob]_vars

\* Identifier id names a stored job or batch created during the first
\* cleanup interval (the bounded clock runs long enough for it to outlive
\* the retention window and meet a sweep).
StoredEarly(id) ==
  \/ id \in DOMAIN jobs /\ jobs[id].createdAt < CLEANUP_INTERVAL
  \/ id \in DOMAIN batches /\ batches[id].createdAt < CLEANUP_INTERVAL

\* C15: with the cleanup task started, every job and every batch, whatever
\* its status, is eventually removed from the store.
C15_EventuallyRemoved ==
  \A id \in Ids : StoredEarly(id) ~> (id \notin DOMAIN jobs \cup DOMAIN batches)

\* Job j of dispatcher b is missing from the store although the dispatcher
\* still has it in its queue or its provider call is in flight.
EvictedEarly(b, j) ==
  /\ b \in DOMAIN disp
  /\ j \in JobsOf(b)
  /\ Gone(j)
  /\ \/ j \in Range(disp[b].queue)
     \/ j \in DOMAIN proc /\ proc[j].st \in {"calling", "settled"}

\* C16: a job of the store that has been removed never reappears, whatever
\* the dispatcher writes afterwards; and a dispatcher that lost a queued or
\* in-flight job to cleanup still runs to its end: its queue empties, it
\* returns, and every job of the batch that is still stored is `complete`
\* or `error`.
C16_EvictionIsHarmless ==
  /\ [][\A id \in Issued : (id \notin DOMAIN jobs) => (id \notin DOMAIN jobs')]_vars
  /\ \A b \in Ids :
       (\E j \in Ids : EvictedEarly(b, j))
         ~> (b \in DOMAIN disp /\ disp[b].st = "done" /\ Drained(b))

\* C16 witness: processJob of a job that cleanup removed during its call has
\* returned (its terminal write found no job), the job is still absent and
\* a sibling waits `pending` in the store.
C16_Witness ==
  \E b \in DOMAIN disp : \E j, k \in JobsOf(b) :
    /\ j \in DOMAIN proc /\ proc[j].st = "returned" /\ Gone(j)
    /\ Stored(k) /\ StatusOf(k) = "pending" /\ k \in Range(disp[b].queue)

\* The identifiers handed out to two batches.
TwoIds == 1 .. 2 * (MaxTwoCount + 1)

\* C17: with two batches dispatched side by side, the `generating` jobs of
\* each batch are bounded by that batch's own concurrency; a dispatcher that
\* is suspended has no queued job together with a free slot, whatever the
\* other batch holds; and a batch whose own provider calls are answered
\* runs to completion even if no call of the other batch is ever answered.
C17_BatchesIndependent ==
  /\ [](\A b \in DOMAIN disp :
          /\ 2 * Cardinality(GeneratingOf(b)) <= disp[b].concurrency.h
          /\ disp[b].st \in {"waiting", "done"} => ~CanAdmit(disp[b]))
  /\ \A b \in TwoIds :
       WF_vars(AnswersFor(b))
         => ((b \in DOMAIN disp)
               ~> (b \in DOMAIN disp /\ disp[b].st = "done" /\ Drained(b)))

\* C17 witness: batch a (concurrency 1) has its only slot occupied by a call
\* that was never answered and a job still queued; batch b (concurrency 1),
\* dispatched later, has finished its first job and admitted its second:
\* two jobs are `generating`, more than either limit.
C17_Witness ==
  \E a, b \in DOMAIN disp :
    /\ a < b
    /\ disp[a].concurrency = Num(1) /\ disp[b].concurrency = Num(1)
    /\ disp[a].st = "waiting" /\ disp[a].queue # <<>>
    /\ \A j \in DOMAIN proc : j \in JobsOf(a) => proc[j].st = "calling"
    /\ Cardinality(GeneratingOf(a)) = 1
    /\ Len(disp[b].jobIds) = 2
    /\ StatusOf(disp[b].jobIds[1]) \in Terminal
    /\ StatusOf(disp[b].jobIds[2]) = "generating"

\* C18: no promise of processJob and no promise of processJobs is ever
\* rejected; and the step in which processJob returns after a failure (of
\* the provider call or of the construction of the client) is the write of
\* status `error` with that failure's message for its job.
C18_NoFailureEscapes ==
  /\ [](/\ \A j \in DOMAIN proc : proc[j].promise # "rejected"
        /\ \A b \in DOMAIN disp : disp[b].st # "rejected" /\ disp[b].race # "rejected")
  /\ [][\A j \in Ids :
          (Returns(j) /\ ~proc'[j].out.ok) =>
            /\ proc'[j].out.value # NoValue
            /\ jobs' = updateJob(jobs, j, [status |-> "error",
                                           error |-> proc'[j].out.value])]_vars

\* C18 witness: the provider call of one job failed and that of a sibling
\* succeeded; both promises of processJob were fulfilled, the failed job
\* carries the message and the dispatcher has returned.
C18_Witness ==
  \E b \in DOMAIN disp : \E j, k \in JobsOf(b) :
    /\ disp[b].st = "done"
    /\ j # k
    /\ proc[j].out = Thrown(GeminiError("quota exceeded"))
    /\ proc[j].promise = "fulfilled" /\ proc[k].promise = "fulfilled"
    /\ Stored(j) /\ jobs[j].status = "error"
    /\ jobs[j].error = GeminiError("quota exceeded")
    /\ Stored(k) /\ jobs[k].status = "complete"

\* C19: when GEMINI_API_KEY is missing, a well-formed request is still
\* answered 200; when its dispatcher returns, every job of the batch is
\* stored with status `error` and the message of the constructor's failure;
\* and the dispatcher does return.
C19_MissingKeyFailsAll ==
  /\ [][(~apiKey /\ PostReturn /\ WellFormed(req)) => response'.status = 200]_vars
  /\ [][(~apiKey /\ Finish) =>
          \A j \in JobsOf(run.b) :
            /\ Stored(j)
            /\ jobs[j].status = "error"
            /\ jobs[j].error = MissingKeyError
            /\ jobs[j].imageUrl = NoValue]_vars
  /\ \A b \in Ids :
       (~apiKey /\ b \in DOMAIN disp
          /\ InRange(disp[b].concurrency, MinConcurrency, MaxConcurrency))
         ~> (b \in DOMAIN disp /\ disp[b].st = "done")

\* C19 witness: without the key a request for 3 images with concurrency 2
\* was answered 200 and its dispatcher has returned: the three jobs are
\* `error` with the constructor's message.
C19_Witness ==
  /\ ~apiKey
  /\ response.status = 200
  /\ \E b \in DOMAIN disp :
       /\ disp[b].st = "done" /\ disp[b].concurrency = Num(2)
       /\ Len(disp[b].jobIds) = 3
       /\ \A j \in JobsOf(b) :
            Stored(j) /\ jobs[j].status = "error" /\ jobs[j].error = MissingKeyError

C21_PollUntilAllTerminal ==
  /\ [][ClientRoundEnd =>
          /\ DOMAIN client.seen = Range(client.jobIds)
          /\ ~client'.polling <=> (\A j \in DOMAIN client.seen : client.seen[j] \in Terminal)
          /\ client'.isGenerating = client'.polling]_vars
  /\ [][(client.polling /\ ~client'.polling) =>
          (ClientRoundEnd /\ \A j \in Range(client.jobIds) : client.seen[j] \in Terminal)]_vars
  /\ [](client.polling => client.isGenerating)
  /\ (client.polling /\ \A j \in Range(client.jobIds) : StatusOf(j) \in Terminal)
       ~> (~client.polling /\ ~client.isGenerating)

\* C22: when the submit request is answered with a non-success status the
\* page shows the error message of the response, leaves the generating
\* state with Generate enabled again, and neither starts the poll loop nor
\* queries any status; the next Generate clears the error, and it stays
\* cleared once a request has succeeded.
C22_SubmitFailureShown ==
  /\ [][ClientFailure =>
          /\ response.status >= 400
          /\ client'.error = response.error /\ client'.error # NoValue
          /\ ~client'.isGenerating /\ ~client'.polling /\ client'.todo = {}]_vars
  /\ [](client.request = "failed" =>
          /\ ~client.isGenerating /\ ~client.polling /\ call = NoCall
          /\ client.error = response.error
          /\ client.attempts < MaxAttempts => ENABLED ClientGenerate)
  /\ [][ClientGenerate => client'.error = NoValue]_vars
  /\ [](client.request = "answered" => client.error = NoValue)

C22_Witness ==
  /\ client.attempts = 2 /\ client.request = "answered"
  /\ response.status = 200 /\ client.error = NoValue
  /\ client.polling /\ \E j \in DOMAIN client.view : client.view[j] = "generating"

\* C23: whenever the dispatcher starts waiting, its queue is empty or the
\* number of units in its active set equals `concurrency`; a unit is always
\* admitted from the front of the queue; and with concurrency >= the number
\* of jobs the first wait finds every job admitted.
C23_WaitsOnlyWhenFull ==
  /\ [][Await => LET d == disp[run.b] IN
                    \/ d.queue = <<>>
                    \/ 2 * Cardinality(d.active) = d.concurrency.h]_vars
  /\ [][Admit => run'.j = Head(disp[run.b].queue)]_vars
  /\ [][(Await /\ run.caller = "POST"
             /\ disp[run.b].concurrency.h >= 2 * Len(disp[run.b].jobIds))
          => (disp[run.b].queue = <<>>
                /\ disp[run.b].active = Range(disp[run.b].jobIds))]_vars

TerminalOf(b) == {j \in JobsOf(b) : StatusOf(j) \in Terminal}

\* C24: in a batch of N jobs with a whole concurrency K <= N, when the
\* first terminal status of the batch is written the first K jobs of the
\* list, and no others, have status `generating`.
C24_InitialSaturation ==
  [][\A b \in DOMAIN disp :
       (/\ InRange(disp[b].concurrency, MinConcurrency, MaxConcurrency)
        /\ disp[b].concurrency.h <= 2 * Len(disp[b].jobIds)
        /\ TerminalOf(b) = {}
        /\ TerminalOf(b)' # {})
       => GeneratingOf(b) =
            {disp[b].jobIds[i] : i \in 1 .. (disp[b].concurrency.h \div 2)}]_vars

\* The jobs of dispatcher b whose provider call has not been answered.
CallingOf(b) == {j \in JobsOf(b) : j \in DOMAIN proc /\ proc[j].st = "calling"}

\* C25: a job whose provider call is unanswered is `generating` for as long
\* as it is stored and its promise keeps its place in the active set; while
\* unanswered calls hold every slot of a batch nothing leaves its queue, and
\* the jobs still queued are `pending` for as long as they are stored.
C25_HungCallKeepsSlot ==
  /\ [](\A b \in DOMAIN disp : \A j \in CallingOf(b) :
          /\ j \in disp[b].active
          /\ Stored(j) => StatusOf(j) = "generating")
  /\ [](\A b \in DOMAIN disp : \A j \in Range(disp[b].queue) :
          Stored(j) => StatusOf(j) = "pending")
  /\ [][\A b \in DOMAIN disp :
          ~JsBelow(Cardinality(CallingOf(b)), disp[b].concurrency)
            => /\ b \in DOMAIN disp'
               /\ disp'[b].queue = disp[b].queue]_vars

\* C25 witness: concurrency 1, three jobs: the call of the first is still
\* unanswered a cleanup interval later, the other two are queued and pending.
C25_Witness ==
  \E b \in DOMAIN disp :
    /\ disp[b].concurrency = Num(1)
    /\ Len(disp[b].jobIds) = 3 /\ Len(disp[b].queue) = 2
    /\ CallingOf(b) = {disp[b].jobIds[1]}
    /\ StatusOf(disp[b].jobIds[1]) = "generating"
    /\ \A j \in Range(disp[b].queue) : StatusOf(j) = "pending"
    /\ now >= CLEANUP_INTERVAL

\* C26: once a poll round in which the status route answered 404 for a job
\* (the answer carries no status) is on display, the page shows an error.
C26_NotFoundIsSurfaced ==
  (\E j \in DOMAIN client.view : client.view[j] = NoValue) => client.error # NoValue

\* C27: every stored job and batch has the id it is stored under; as long as
\* it is stored a job keeps its id and createdAt and a batch its jobIds,
\* concurrency and createdAt; and the stored batch lists exactly the jobs the
\* dispatcher was given and the submit response returned, whatever has been
\* dequeued.
C27_IdentityFieldsFrozen ==
  /\ [](\A j \in DOMAIN jobs : jobs[j].id = j)
  /\ [](\A b \in DOMAIN batches : batches[b].id = b)
  /\ [][\A j \in DOMAIN jobs \cap DOMAIN jobs' :
          jobs'[j].id = jobs[j].id /\ jobs'[j].createdAt = jobs[j].createdAt]_vars
  /\ [][\A b \in DOMAIN batches \cap DOMAIN batches' :
          /\ batches'[b].jobIds = batches[b].jobIds
          /\ batches'[b].concurrency = batches[b].concurrency
          /\ batches'[b].createdAt = batches[b].createdAt]_vars
  /\ [](\A b \in DOMAIN batches :
          /\ b \in DOMAIN disp /\ batches[b].jobIds = disp[b].jobIds
          /\ (response.status = 200 /\ response.batchId = b)
               => batches[b].jobIds = response.jobIds)

\* C27 witness: the dispatcher has dequeued all three jobs and finished; the
\* stored batch still lists them, as the response did.
C27_Witness ==
  \E b \in DOMAIN batches :
    /\ disp[b].st = "done" /\ disp[b].queue = <<>>
    /\ Len(batches[b].jobIds) = 3
    /\ response.status = 200 /\ response.jobIds = batches[b].jobIds
    /\ \E j \in Range(batches[b].jobIds) :
         j \in DOMAIN jobs /\ jobs[j].status = "complete" /\ jobs[j].createdAt < now

\* A call of cleanup with retention ms: a direct one, or the periodic one.
CleanupCalled(ms) == CallCleanup(ms) \/ (ms = JOB_LIFETIME /\ CleanupTask)
\* The entries of m created at or after the cutoff are in m2 as they were.
KeptFrom(m, m2, cutoff) ==
  \A id \in DOMAIN m : m[id].createdAt >= cutoff => (id \in DOMAIN m2 /\ m2[id] = m[id])
\* The entries of m that are not in m2.
Removed(m, m2) == DOMAIN m \ DOMAIN m2

\* C28: a call of cleanup with retention ms leaves every job and every batch
\* with createdAt >= now - ms stored and unchanged, and a job or batch leaves
\* the store only in a call of cleanup and only if it is older than that
\* call's cutoff (the periodic call has retention JOB_LIFETIME, one hour).
C28_CleanupSparesTheYoung ==
  /\ [][\A ms \in RetentionInputs : CleanupCalled(ms) =>
          /\ KeptFrom(jobs, jobs', now - ms)
          /\ KeptFrom(batches, batches', now - ms)]_vars
  /\ [][\A id \in Removed(jobs, jobs') : \E ms \in RetentionInputs :
          CleanupCalled(ms) /\ jobs[id].createdAt < now - ms]_vars
  /\ [][\A id \in Removed(batches, batches') : \E ms \in RetentionInputs :
          CleanupCalled(ms) /\ batches[id].createdAt < now - ms]_vars

\* C28 witness: cleanup(1) was called at time 2: the job created at time 0
\* is gone, the job created at time 1, at the cutoff, is still stored.
C28_Witness ==
  /\ call = Call("cleanup", 0, 1, 2) /\ now = 2
  /\ uuid > 2 /\ DOMAIN jobs = {2}
  /\ jobs[2].createdAt = 1

\* The jobs of dispatcher b that have left its queue.
AdmittedOf(b) == JobsOf(b) \ Range(disp[b].queue)
\* seq has no element twice.
NoDuplicates(seq) == \A i, k \in 1 .. Len(seq) : seq[i] = seq[k] => i = k

C30_DispatcherYields ==
  /\ [](run.op = "processJobs" =>
          LET d == disp[run.b] IN
            CanAdmit(d) \/ Cardinality(d.active) > 0 \/ Len(d.queue) = 0)
  /\ (run.op = "POST") ~> (run.op = "idle" /\ response.status = 200)
====
